---------------------------- MODULE Spec2Model ----------------------------
(***************************************************************************)
(* The streaming-insert write path of apache_beam/io/gcp/bigquery.py:      *)
(* WriteToBigQuery.expand (the checks of the arguments),                   *)
(* _StreamToBigQuery.InsertIdPrefixFn (insert id assignment), the fixed    *)
(* sharding steps, the process-wide _KNOWN_TABLES cache and                *)
(* BigQueryWriteFn (per-destination buffering, threshold flushes, the      *)
(* insert/retry loop, FailedRows).                                         *)
(*                                                                         *)
(* Units is the set of BigQueryWriteFn instances the host runs             *)
(* concurrently in one process; each runs its bundles one after another    *)
(* and its steps interleave freely with the other instances' steps.  The   *)
(* only state they share is _KNOWN_TABLES.                                 *)
(*                                                                         *)
(* Left out: logging, the metrics (batch size, latency, failed-row count,  *)
(* throttled seconds), the dynamic schema resolution and the sleep's       *)
(* duration (the position in the backoff sequence is kept).                *)
(***************************************************************************)
EXTENDS Integers, Sequences, FiniteSets, Bags, TLC

(***************************************************************************)
(* Bounds of the model.                                                    *)
(***************************************************************************)
\* Number of records of the input stream.
MaxRecords == 3
\* Length of the backoff sequence, num_retries=10000 in start_bundle,
\* scaled down: the sequence yields NumRetries delays and is then exhausted.
NumRetries == 2
\* DEFAULT_SHARDS_PER_DESTINATION, scaled down from 500.
DEFAULT_SHARDS_PER_DESTINATION == 1

\* BigQueryWriteFn.DEFAULT_MAX_BATCH_SIZE and DEFAULT_MAX_BUFFERED_ROWS (500
\* and 2000 in the source), scaled down with their order kept.
DEFAULT_MAX_BATCH_SIZE == 2
DEFAULT_MAX_BUFFERED_ROWS == 3

\* The re-executions of a failed writer bundle that are explored.
MaxRedeliveries == 1

Units == {"u1", "u2"}
\* The values str(uuid.uuid4()) can return in InsertIdPrefixFn.start_bundle.
Uuids == {"a", "b"}
\* Hashable destinations, 'project:dataset.table'.
Dests == {"p:d.t1", "p:d.t2"}
Rows == 1..MaxRecords

\* Values of the batch_size and max_buffered_rows options that are explored.
BatchSizes == {1, 2}
BufferedRowsLimits == {2, 3}

RETRY_ALWAYS == "RETRY_ALWAYS"
RETRY_NEVER == "RETRY_NEVER"
RETRY_ON_TRANSIENT_ERROR == "RETRY_ON_TRANSIENT_ERROR"
RetryStrategies == {RETRY_ALWAYS, RETRY_NEVER, RETRY_ON_TRANSIENT_ERROR}

CREATE_NEVER == "CREATE_NEVER"
CREATE_IF_NEEDED == "CREATE_IF_NEEDED"
CreateDispositions == {CREATE_NEVER, CREATE_IF_NEEDED}

\* Error reasons the backend reports for a row: one permanent, one transient.
NON_TRANSIENT_ERRORS == {"invalid"}
Reasons == {"invalid", "timeout"}

VARIABLES
  options,              \* the arguments of WriteToBigQuery and the pipeline's streaming option
  expanded,             \* what WriteToBigQuery.expand has returned or raised (None: not called)
  redeliveries,         \* history: times the host has run a failed writer bundle again
  conf,                 \* the options the BigQueryWriteFn instances were built with
  prefix,               \* InsertIdPrefixFn.prefix (None: no bundle started yet)
  row_count,            \* InsertIdPrefixFn._row_count
  produced,             \* records the id-assigning unit has processed
  insert_id_of,         \* history: the InsertId each row was given
  shuffling,            \* sharded elements ((dest, shard), (row, insert_id)) in the reshuffle
  earlier_ids,          \* history: (row, insert_id) of executions that were run again
  id_pc,                \* the id-assigning unit's position: idle or running a bundle
  pending,              \* elements (dest, (row, insert_id)) awaiting a writer unit
  KNOWN_TABLES,         \* _KNOWN_TABLES
  pc,                   \* each unit's position
  rows_buffer,          \* BigQueryWriteFn._rows_buffer, a dict in insertion order
  total_buffered_rows,  \* BigQueryWriteFn._total_buffered_rows
  backoff,              \* delays already taken from _backoff_calculator
  cur,                  \* the element process is handling while the table is created
  caller,               \* who started the flushes under way: process or finish_bundle
  queue,                \* destinations _flush_all_batches / process still has to flush
  fl,                   \* locals of _flush_batch: destination, rows, insert_ids, errors
  create_calls,         \* history: get_or_create_table calls that returned, per unit and key
  accepted,             \* history: rows the backend accepted in some insert call
  FailedRows,           \* the FailedRows output, a bag of (destination, row)
  forced,               \* history: the last process call of the unit hit the ceiling
  bundle_calls          \* history: the insert calls of the unit's current bundle, kept
                        \* while the bundle has one destination and no row error

confVars == <<conf>>
pipeVars == <<options, expanded, redeliveries>>
idVars == <<prefix, row_count, produced, insert_id_of, shuffling, earlier_ids, id_pc>>
unitVars == <<pc, rows_buffer, total_buffered_rows, backoff, cur, caller, queue, fl>>
histVars == <<create_calls, accepted, FailedRows, forced, bundle_calls>>
vars == <<options, expanded, redeliveries, conf, prefix, row_count, produced, insert_id_of, shuffling, earlier_ids, id_pc,
          pending, KNOWN_TABLES,
          pc, rows_buffer, total_buffered_rows, backoff, cur, caller, queue, fl,
          create_calls, accepted, FailedRows, forced, bundle_calls>>

None == "None"

(***************************************************************************)
(* _rows_buffer: a defaultdict(list), modelled as the sequence of its      *)
(* (key, value) entries in insertion order.                                *)
(***************************************************************************)
Keys(b) == [i \in 1..Len(b) |-> b[i].dest]

HasKey(b, d) == \E i \in 1..Len(b) : b[i].dest = d

\* b[d]; a missing key reads as the empty list.
Get(b, d) ==
  IF HasKey(b, d)
  THEN LET i == CHOOSE j \in 1..Len(b) : b[j].dest = d IN b[i].rows
  ELSE <<>>

\* Mutant of Extend: the items go to the list of the dict's first key.
ExtendFirst(b, d, items) ==
  IF b # <<>>
  THEN [i \in 1..Len(b) |->
          IF i = 1 THEN [dest |-> b[i].dest, rows |-> b[i].rows \o items] ELSE b[i]]
  ELSE Append(b, [dest |-> d, rows |-> items])

\* b[d].extend(items)
Extend(b, d, items) ==
  IF HasKey(b, d)
  THEN [i \in 1..Len(b) |->
          IF b[i].dest = d THEN [dest |-> d, rows |-> b[i].rows \o items] ELSE b[i]]
  ELSE Append(b, [dest |-> d, rows |-> items])

\* del b[d]
Del(b, d) == SelectSeq(b, LAMBDA e : e.dest # d)

\* Sum of the lengths of all the lists of b.
RECURSIVE BufferedCount(_)
BufferedCount(b) ==
  IF b = <<>> THEN 0 ELSE Len(Head(b).rows) + BufferedCount(Tail(b))

\* The rows (without their ids) held in b.
BufferedRows(b) ==
  UNION {{b[i].rows[j][1] : j \in 1..Len(b[i].rows)} : i \in 1..Len(b)}

RECURSIVE SeqToBag(_)
SeqToBag(s) ==
  IF s = <<>> THEN EmptyBag ELSE SetToBag({Head(s)}) (+) SeqToBag(Tail(s))

SeqRange(s) == {s[i] : i \in 1..Len(s)}

(***************************************************************************)
(* The insert primitive's answers.  For a call carrying n rows the backend *)
(* returns one error entry (index, reason) for each row it rejects, in     *)
(* ascending index order; index counts from 0.                             *)
(***************************************************************************)
RECURSIVE ErrorEntries(_, _, _)
ErrorEntries(f, i, n) ==
  IF i > n THEN <<>>
  ELSE (IF f[i] = "ok" THEN <<>> ELSE <<[index |-> i - 1, reason |-> f[i]]>>)
       \o ErrorEntries(f, i + 1, n)

Responses(n) == {ErrorEntries(f, 1, n) : f \in [1..n -> {"ok"} \cup Reasons]}

\* RetryStrategy.should_retry(strategy, error_message)
should_retry(strategy, reason) ==
  IF strategy = RETRY_ALWAYS THEN TRUE
  ELSE IF strategy = RETRY_NEVER THEN FALSE
  ELSE strategy = RETRY_ON_TRANSIENT_ERROR /\ reason \notin NON_TRANSIENT_ERRORS

\* '%s:%s.%s' % (projectId, datasetId, tableId) of the parsed destination.
str_table_reference(destination) == destination

(***************************************************************************)
(* Initial state: the transform is constructed with some options, no       *)
(* bundle has started.                                                     *)
(***************************************************************************)
NoFlush == [dest |-> None, rows |-> <<>>, insert_ids |-> <<>>, errors |-> <<>>, attempt |-> 0]

\* The value of bundle_calls when the bundle is not followed: none has
\* started, or it has had a second destination or a row error.
Untracked == [dest |-> None, n |-> -1, calls |-> <<>>]

\* The combinations of options explored.  max_buffered_rows is read only
\* without batched input, so one value of it stands for all with it.
Configs ==
  {c \in [retry_strategy : RetryStrategies,
          create_disposition : CreateDispositions,
          ignore_insert_ids : BOOLEAN,
          with_batched_input : BOOLEAN,
          max_batch_size : BatchSizes,
          max_buffered_rows : BufferedRowsLimits] :
     c.with_batched_input => \A m \in BufferedRowsLimits : c.max_buffered_rows <= m}

\* The options explored with concurrent units.
UnitsConfigs ==
  {c \in Configs :
     /\ c.retry_strategy = RETRY_ON_TRANSIENT_ERROR
     /\ c.create_disposition = CREATE_IF_NEEDED
     /\ ~c.ignore_insert_ids
     /\ ~c.with_batched_input
     /\ \A b \in BatchSizes : c.max_batch_size >= b
     /\ \A m \in BufferedRowsLimits : c.max_buffered_rows >= m}

\* WriteToBigQuery.Method
DEFAULT == "DEFAULT"
STREAMING_INSERTS == "STREAMING_INSERTS"
FILE_LOADS == "FILE_LOADS"
Methods == {DEFAULT, STREAMING_INSERTS, FILE_LOADS}

\* BigQueryDisposition, the write dispositions
WRITE_TRUNCATE == "WRITE_TRUNCATE"
WRITE_APPEND == "WRITE_APPEND"
WRITE_EMPTY == "WRITE_EMPTY"
WriteDispositions == {WRITE_TRUNCATE, WRITE_APPEND, WRITE_EMPTY}

SCHEMA_AUTODETECT == "SCHEMA_AUTODETECT"
AVRO == "AVRO"
JSON == "NEWLINE_DELIMITED_JSON"

\* The arguments of WriteToBigQuery that expand reads, and the streaming
\* option of the pipeline.  schema: auto-detection, a schema, or none;
\* triggering_frequency: set or not; batch_size: a number, or 0 when it is
\* not configured (batch_size or d is d for None as for 0).
PipelineOptions ==
  [streaming : BOOLEAN,
   with_auto_sharding : BOOLEAN,
   method : Methods,
   schema : {SCHEMA_AUTODETECT, "schema", None},
   triggering_frequency : {None, "set"},
   temp_file_format : {AVRO, JSON},
   write_disposition : WriteDispositions,
   batch_size : {0, 1}]

\* What expand returns.
StreamToBigQuery == "_StreamToBigQuery"
BigQueryBatchFileLoads == "BigQueryBatchFileLoads"

\* The ValueErrors expand raises.
ErrAutoSharding == "ValueError: with_auto_sharding is not applicable to batch pipelines."
ErrAutodetectStreaming == "ValueError: Schema auto-detection is not supported for streaming inserts"
ErrTriggeringFrequency == "ValueError: triggering_frequency can only be used with FILE_LOADS"
ErrWriteDisposition == "ValueError: Write disposition is not supported for streaming inserts"
ErrAutodetectAvro == "ValueError: Schema auto-detection is not supported when using Avro"
ErrNoSchemaAvro == "ValueError: A schema must be provided when using Avro"

\* The options of a pipeline whose writer was built with the options c.
OptionsOf(c) ==
  [streaming |-> TRUE,
   with_auto_sharding |-> c.with_batched_input,
   method |-> STREAMING_INSERTS,
   schema |-> "schema",
   triggering_frequency |-> None,
   temp_file_format |-> JSON,
   write_disposition |-> WRITE_APPEND,
   batch_size |-> c.max_batch_size]

\* The options _StreamToBigQuery.expand builds the writer with, the
\* arguments expand does not read at their defaults: batch_size or
\* DEFAULT_MAX_BATCH_SIZE; max_buffered_rows is not passed on.
ConfOf(o) ==
  [retry_strategy |-> RETRY_ALWAYS,
   create_disposition |-> CREATE_IF_NEEDED,
   ignore_insert_ids |-> FALSE,
   with_batched_input |-> o.with_auto_sharding,
   max_batch_size |-> IF o.batch_size # 0 THEN o.batch_size ELSE DEFAULT_MAX_BATCH_SIZE,
   max_buffered_rows |-> DEFAULT_MAX_BUFFERED_ROWS]

\* The state of the units when no bundle has started.
InitUnstarted ==
  /\ redeliveries = 0
  /\ prefix = None
  /\ row_count = 0
  /\ produced = 0
  /\ insert_id_of = [r \in {} |-> None]
  /\ shuffling = {}
  /\ earlier_ids = {}
  /\ id_pc = "idle"
  /\ pending = {}
  /\ KNOWN_TABLES = {}
  /\ pc = [u \in Units |-> "idle"]
  /\ rows_buffer = [u \in Units |-> <<>>]
  /\ total_buffered_rows = [u \in Units |-> 0]
  /\ backoff = [u \in Units |-> 0]
  /\ cur = [u \in Units |-> <<>>]
  /\ caller = [u \in Units |-> None]
  /\ queue = [u \in Units |-> <<>>]
  /\ fl = [u \in Units |-> NoFlush]
  /\ create_calls = [u \in Units |-> [d \in Dests |-> 0]]
  /\ accepted = {}
  /\ FailedRows = EmptyBag
  /\ forced = [u \in Units |-> FALSE]
  /\ bundle_calls = [u \in Units |-> Untracked]

\* The streaming writer has been built with some options.
Init ==
  /\ conf \in Configs
  /\ options = OptionsOf(conf)
  /\ expanded = StreamToBigQuery
  /\ InitUnstarted

(***************************************************************************)
(* WriteToBigQuery.expand                                                  *)
(***************************************************************************)
\* _compute_method
compute_method(method, is_streaming_pipeline) ==
  IF method = DEFAULT /\ is_streaming_pipeline THEN STREAMING_INSERTS
  ELSE IF method = DEFAULT /\ ~is_streaming_pipeline THEN FILE_LOADS
  ELSE method

\* Mutant of StreamingWriter: only WRITE_TRUNCATE is refused.
StreamingWriterTruncateOnly(o) ==
  IF o.write_disposition = WRITE_TRUNCATE
  THEN ErrWriteDisposition
  ELSE StreamToBigQuery

\* BigQueryWriteFn.__init__, called by _StreamToBigQuery.expand: the
\* dispositions the streaming writer refuses.
StreamingWriter(o) ==
  IF o.write_disposition \in {WRITE_EMPTY, WRITE_TRUNCATE}
  THEN ErrWriteDisposition
  ELSE StreamToBigQuery

\* Mutant of expand_method: auto-detection is refused only when the
\* streaming-insert method was asked for by name.
expand_method_explicit_only(o) ==
  IF compute_method(o.method, o.streaming) = STREAMING_INSERTS
  THEN IF o.schema = SCHEMA_AUTODETECT /\ o.method = STREAMING_INSERTS
       THEN ErrAutodetectStreaming
       ELSE IF o.triggering_frequency # None THEN ErrTriggeringFrequency
       ELSE StreamingWriter(o)
  ELSE IF o.temp_file_format = AVRO /\ o.schema = SCHEMA_AUTODETECT
       THEN ErrAutodetectAvro
       ELSE IF o.temp_file_format = AVRO /\ o.schema = None THEN ErrNoSchemaAvro
       ELSE BigQueryBatchFileLoads

\* expand from the choice of the method on.
expand_method(o) ==
  IF compute_method(o.method, o.streaming) = STREAMING_INSERTS
  THEN IF o.schema = SCHEMA_AUTODETECT THEN ErrAutodetectStreaming
       ELSE IF o.triggering_frequency # None THEN ErrTriggeringFrequency
       ELSE StreamingWriter(o)
  ELSE IF o.temp_file_format = AVRO /\ o.schema = SCHEMA_AUTODETECT
       THEN ErrAutodetectAvro
       ELSE IF o.temp_file_format = AVRO /\ o.schema = None THEN ErrNoSchemaAvro
       ELSE BigQueryBatchFileLoads

\* Mutant of expand: auto sharding is checked for streaming inserts only.
expand_checks_streaming_inserts_only(o) ==
  IF /\ ~o.streaming
     /\ o.with_auto_sharding
     /\ compute_method(o.method, o.streaming) = STREAMING_INSERTS
  THEN ErrAutoSharding
  ELSE expand_method(o)

\* What WriteToBigQuery.expand returns or raises.
expand(o) ==
  IF ~o.streaming /\ o.with_auto_sharding THEN ErrAutoSharding
  ELSE expand_method(o)

\* The pipeline is constructed: the transform is expanded.
Expand ==
  /\ expanded = None
  /\ expanded' = expand(options)
  /\ UNCHANGED <<options, redeliveries, conf, pending, KNOWN_TABLES>>
  /\ UNCHANGED idVars
  /\ UNCHANGED unitVars
  /\ UNCHANGED histVars

(***************************************************************************)
(* _StreamToBigQuery.InsertIdPrefixFn                                      *)
(***************************************************************************)
\* Mutant of insert_id: the count is left out of the id.
insert_id_prefix_only(p, k) == p \o "-"

\* insert_id = '%s-%s' % (self.prefix, self._row_count)
insert_id(p, k) == p \o "-" \o ToString(k)

\* The ids given out so far, in this execution or in one that was run again.
UsedIds ==
  {insert_id_of[r] : r \in DOMAIN insert_id_of} \cup {x[2] : x \in earlier_ids}

\* Mutant of uuid4: a value drawn before can be drawn again.
uuid4_any == Uuids

\* uuid.uuid4(): a value that was not drawn before.
uuid4 ==
  {p \in Uuids :
     /\ p # prefix
     /\ \A k \in 0..MaxRecords : insert_id(p, k) \notin UsedIds}

\* start_bundle: the prefix is p, just drawn, and the count is 0.  The host
\* starts an invocation when there are records to process.
InsertIdStartBundle(p) ==
  /\ id_pc = "idle"
  /\ produced < MaxRecords
  /\ p \in uuid4
  /\ prefix' = p
  /\ row_count' = 0
  /\ id_pc' = "running"
  /\ UNCHANGED <<conf, produced, insert_id_of, shuffling, earlier_ids, pending,
                 KNOWN_TABLES>>
  /\ UNCHANGED unitVars
  /\ UNCHANGED pipeVars
  /\ UNCHANGED histVars

\* process: the next record of the input, bound for destination d; the
\* element goes on to the writer.
InsertIdProcess(d) ==
  /\ id_pc = "running"
  /\ produced < MaxRecords
  /\ LET row == produced + 1
         id == insert_id(prefix, row_count)
     IN /\ pending' = pending \cup {[dest |-> d, value |-> <<row, id>>]}
        /\ insert_id_of' = (row :> id) @@ insert_id_of
  /\ row_count' = row_count + 1
  /\ produced' = produced + 1
  /\ UNCHANGED <<conf, prefix, shuffling, earlier_ids, id_pc, KNOWN_TABLES>>
  /\ UNCHANGED unitVars
  /\ UNCHANGED pipeVars
  /\ UNCHANGED histVars

(***************************************************************************)
(* Fixed sharding: WithFixedSharding, CommitInsertIds, DropShard           *)
(***************************************************************************)
\* The destination AppendDestinationsFn gives a record in SpecSharding.
table_of(row) == IF row % 2 = 1 THEN "p:d.t1" ELSE "p:d.t2"

\* random.randint(a, b): an integer N with a <= N <= b.
randint(a, b) == a..b

\* Mutant of add_random_shard: the insert id is dropped from the value.
add_random_shard_drops_id(element, i) ==
  [key |-> <<element.dest, i>>, value |-> <<element.value[1], None>>]

\* _add_random_shard with i the integer drawn.
add_random_shard(element, i) ==
  [key |-> <<element.dest, i>>, value |-> element.value]

\* DropShard: lambda kv: (kv[0][0], kv[1])
DropShard(kv) == [dest |-> kv.key[1], value |-> kv.value]

\* AddInsertIds to WithFixedSharding for the next record of the input.
InsertIdProcessSharded(i) ==
  /\ id_pc = "running"
  /\ produced < MaxRecords
  /\ i \in randint(0, DEFAULT_SHARDS_PER_DESTINATION)
  /\ LET row == produced + 1
         id == insert_id(prefix, row_count)
         element == [dest |-> table_of(row), value |-> <<row, id>>]
     IN /\ shuffling' = shuffling \cup {add_random_shard(element, i)}
        /\ insert_id_of' = (row :> id) @@ insert_id_of
  /\ row_count' = row_count + 1
  /\ produced' = produced + 1
  /\ UNCHANGED <<conf, prefix, earlier_ids, id_pc, pending, KNOWN_TABLES>>
  /\ UNCHANGED unitVars
  /\ UNCHANGED pipeVars
  /\ UNCHANGED histVars

\* The rows the running invocation of the id-assigning unit has processed.
InvocationRows == (produced - row_count + 1)..produced

\* The invocation ends: its outputs are handed to the reshuffle.
InsertIdBundleDone ==
  /\ id_pc = "running"
  /\ id_pc' = "idle"
  /\ UNCHANGED <<conf, prefix, row_count, produced, insert_id_of, shuffling,
                 earlier_ids, pending, KNOWN_TABLES>>
  /\ UNCHANGED unitVars
  /\ UNCHANGED pipeVars
  /\ UNCHANGED histVars

\* The invocation fails: the host discards its outputs and will execute the
\* unit again for the same input.
InsertIdBundleFails ==
  /\ id_pc = "running"
  /\ row_count > 0
  /\ id_pc' = "idle"
  /\ earlier_ids' = earlier_ids \cup {<<r, insert_id_of[r]>> : r \in InvocationRows}
  /\ insert_id_of' = [r \in DOMAIN insert_id_of \ InvocationRows |-> insert_id_of[r]]
  /\ shuffling' = {x \in shuffling : x.value[1] \notin InvocationRows}
  /\ pending' = {x \in pending : x.value[1] \notin InvocationRows}
  /\ produced' = produced - row_count
  /\ UNCHANGED <<conf, prefix, row_count, KNOWN_TABLES>>
  /\ UNCHANGED unitVars
  /\ UNCHANGED pipeVars
  /\ UNCHANGED histVars

\* The elements ReshufflePerKey emits for key k.
Grouped(k) == {x \in shuffling : x.key = k}

\* CommitInsertIds and DropShard for one (destination, shard) key: the
\* elements of the key go on to the writer.  As the writer does, the
\* reshuffle runs once the id-assigning unit has processed the input.
CommitInsertIds(k) ==
  /\ id_pc = "idle"
  /\ produced = MaxRecords
  /\ \E x \in shuffling : x.key = k
  /\ shuffling' = {x \in shuffling : x.key # k}
  /\ pending' = pending \cup {DropShard(x) : x \in Grouped(k)}
  /\ UNCHANGED <<conf, prefix, row_count, produced, insert_id_of, earlier_ids,
                 id_pc, KNOWN_TABLES>>
  /\ UNCHANGED unitVars
  /\ UNCHANGED pipeVars
  /\ UNCHANGED histVars

(***************************************************************************)
(* The elements the host can hand to a writer unit now.  Without auto      *)
(* sharding an element is (destination, (row, insert_id)); with it the     *)
(* grouping primitive delivers (destination, batch), a batch holding at    *)
(* most the size it was given of the elements of one destination.  The     *)
(* oldest pending element is always part of the next delivery: the         *)
(* destinations of the records are arbitrary, so any other order of        *)
(* delivery is one of these with the rows renamed.                         *)
(***************************************************************************)
\* The batch size GroupIntoBatches.WithShardedKey is given:
\* self.batch_size or BigQueryWriteFn.DEFAULT_MAX_BUFFERED_ROWS
GroupIntoBatchesSize(o) ==
  IF o.batch_size # 0 THEN o.batch_size ELSE DEFAULT_MAX_BUFFERED_ROWS

RECURSIVE SortedByRow(_)
SortedByRow(S) ==
  IF S = {} THEN <<>>
  ELSE LET m == CHOOSE x \in S : \A y \in S : x.value[1] <= y.value[1]
       IN <<m.value>> \o SortedByRow(S \ {m})

Oldest == CHOOSE x \in pending : \A y \in pending : x.value[1] <= y.value[1]

Groups ==
  IF pending = {} THEN {}
  ELSE IF conf.with_batched_input
  THEN {S \in SUBSET pending :
          /\ Oldest \in S
          /\ Cardinality(S) <= GroupIntoBatchesSize(options)
          /\ \A x, y \in S : x.dest = y.dest}
  ELSE {{Oldest}}

ElementOf(S) ==
  [dest |-> (CHOOSE x \in S : TRUE).dest, items |-> SortedByRow(S)]

(***************************************************************************)
(* BigQueryWriteFn                                                         *)
(***************************************************************************)
\* start_bundle: the buffer is reset and a new backoff sequence is made.
\* It also follows a bundle that ended with an exception.
StartBundle(u) ==
  /\ pc[u] \in {"idle", "aborted"}
  /\ rows_buffer' = [rows_buffer EXCEPT ![u] = <<>>]
  /\ backoff' = [backoff EXCEPT ![u] = 0]
  /\ pc' = [pc EXCEPT ![u] = "ready"]
  /\ cur' = [cur EXCEPT ![u] = <<>>]
  /\ queue' = [queue EXCEPT ![u] = <<>>]
  /\ fl' = [fl EXCEPT ![u] = NoFlush]
  /\ caller' = [caller EXCEPT ![u] = None]
  /\ forced' = [forced EXCEPT ![u] = FALSE]
  /\ bundle_calls' = [bundle_calls EXCEPT ![u] = [dest |-> None, n |-> 0, calls |-> <<>>]]
  /\ UNCHANGED <<conf, pending, KNOWN_TABLES, total_buffered_rows>>
  /\ UNCHANGED idVars
  /\ UNCHANGED pipeVars
  /\ UNCHANGED <<create_calls, accepted, FailedRows>>

\* Mutants of SkipsCreate: the table is never created; the disposition is
\* not looked at.
SkipsCreateAlways(key) == TRUE

SkipsCreateCacheOnly(key) == key \in KNOWN_TABLES

\* _create_table_if_needed returns at once: the key is cached, or the
\* disposition forbids creation.
SkipsCreate(key) ==
  \/ key \in KNOWN_TABLES
  \/ conf.create_disposition = CREATE_NEVER

\* _flush_all_batches: the keys with a non-empty list, in the dict's order.
NonEmptyKeys(b) == SelectSeq(Keys(b), LAMBDA k : Get(b, k) # <<>>)

\* Mutant of FlushTargets: the ceiling is compared with > instead of >=.
FlushTargetsStrict(b, total, d) ==
  IF ~conf.with_batched_input
  THEN IF Len(Get(b, d)) >= conf.max_batch_size THEN <<d>>
       ELSE IF total > conf.max_buffered_rows THEN NonEmptyKeys(b)
       ELSE <<>>
  ELSE <<d>>

\* Mutant of FlushTargets: the thresholds decide with batched input too.
FlushTargetsThresholds(b, total, d) ==
  IF Len(Get(b, d)) >= conf.max_batch_size THEN <<d>>
  ELSE IF total >= conf.max_buffered_rows THEN NonEmptyKeys(b)
  ELSE <<>>

\* Mutant of FlushTargets: the list is flushed once it is above max_batch_size.
FlushTargetsAboveBatch(b, total, d) ==
  IF ~conf.with_batched_input
  THEN IF Len(Get(b, d)) > conf.max_batch_size THEN <<d>>
       ELSE IF total >= conf.max_buffered_rows THEN NonEmptyKeys(b)
       ELSE <<>>
  ELSE <<d>>

\* Mutant of FlushTargets: the ceiling is looked at before the batch size.
FlushTargetsCeilingFirst(b, total, d) ==
  IF ~conf.with_batched_input
  THEN IF total >= conf.max_buffered_rows THEN NonEmptyKeys(b)
       ELSE IF Len(Get(b, d)) >= conf.max_batch_size THEN <<d>>
       ELSE <<>>
  ELSE <<d>>

\* The flushes process starts after it has buffered into destination d.
FlushTargets(b, total, d) ==
  IF ~conf.with_batched_input
  THEN IF Len(Get(b, d)) >= conf.max_batch_size THEN <<d>>
       ELSE IF total >= conf.max_buffered_rows THEN NonEmptyKeys(b)
       ELSE <<>>
  ELSE <<d>>

\* The counter after process has buffered an element.
CountAfterBuffering(total) ==
  IF ~conf.with_batched_input THEN total + 1 ELSE total

\* The history of the bundle once process has taken element e.
Processed(h, e) ==
  IF h # Untracked /\ h.dest \in {None, e.dest}
  THEN [h EXCEPT !.dest = e.dest, !.n = @ + Len(e.items)]
  ELSE Untracked

\* The history of the bundle once an insert call of unit u has answered errors.
Called(h, u, errors) ==
  IF h # Untracked /\ errors = <<>>
  THEN [h EXCEPT !.calls = Append(@, <<caller[u], Len(fl[u].rows)>>)]
  ELSE Untracked

\* process, from the buffering on.
BufferAndFlush(u, e) ==
  LET b1 == Extend(rows_buffer[u], e.dest, e.items)
      t1 == CountAfterBuffering(total_buffered_rows[u])
      q == FlushTargets(b1, t1, e.dest)
  IN /\ rows_buffer' = [rows_buffer EXCEPT ![u] = b1]
     /\ total_buffered_rows' = [total_buffered_rows EXCEPT ![u] = t1]
     /\ queue' = [queue EXCEPT ![u] = q]
     /\ caller' = [caller EXCEPT ![u] = "process"]
     /\ pc' = [pc EXCEPT ![u] = IF q = <<>> THEN "ready" ELSE "flush"]
     /\ forced' = [forced EXCEPT ![u] =
                     /\ ~conf.with_batched_input
                     /\ BufferedCount(b1) >= conf.max_buffered_rows
                     /\ Len(Get(b1, e.dest)) < conf.max_batch_size]
     /\ bundle_calls' = [bundle_calls EXCEPT ![u] = Processed(@, e)]

\* process, up to the get_or_create_table call.
Process(u, S) ==
  /\ pc[u] = "ready"
  /\ produced = MaxRecords
  /\ S \in Groups
  /\ pending' = pending \ S
  /\ LET e == ElementOf(S)
     IN IF SkipsCreate(str_table_reference(e.dest))
        THEN /\ BufferAndFlush(u, e)
             /\ UNCHANGED cur
        ELSE /\ pc' = [pc EXCEPT ![u] = "creating"]
             /\ cur' = [cur EXCEPT ![u] = e]
             /\ UNCHANGED <<rows_buffer, total_buffered_rows, queue, caller, forced,
                            bundle_calls>>
  /\ UNCHANGED <<conf, KNOWN_TABLES, backoff, fl, create_calls>>
  /\ UNCHANGED idVars
  /\ UNCHANGED pipeVars
  /\ UNCHANGED <<accepted, FailedRows>>

\* Mutant of AddKnown: the key is not cached.
AddKnownNothing(known, key) == known

\* Mutant of AddKnown: adding a key that is already there removes it.
AddKnownToggle(known, key) ==
  IF key \in known THEN known \ {key} ELSE known \cup {key}

\* _KNOWN_TABLES.add(str_table_reference)
AddKnown(known, key) == known \cup {key}

\* get_or_create_table returns: the key is cached and process goes on.
CreateReturns(u) ==
  /\ pc[u] = "creating"
  /\ KNOWN_TABLES' = AddKnown(KNOWN_TABLES, str_table_reference(cur[u].dest))
  /\ create_calls' = [create_calls EXCEPT ![u][cur[u].dest] = @ + 1]
  /\ BufferAndFlush(u, cur[u])
  /\ cur' = [cur EXCEPT ![u] = <<>>]
  /\ UNCHANGED <<conf, pending, backoff, fl>>
  /\ UNCHANGED idVars
  /\ UNCHANGED pipeVars
  /\ UNCHANGED <<accepted, FailedRows>>

\* Mutant of CreateRaises: the key is cached though the call has raised.
CreateRaisesCaches(u) ==
  /\ pc[u] = "creating"
  /\ pc' = [pc EXCEPT ![u] = "aborted"]
  /\ cur' = [cur EXCEPT ![u] = <<>>]
  /\ KNOWN_TABLES' = AddKnown(KNOWN_TABLES, str_table_reference(cur[u].dest))
  /\ UNCHANGED <<conf, pending, rows_buffer, total_buffered_rows,
                 backoff, caller, queue, fl>>
  /\ UNCHANGED idVars
  /\ UNCHANGED pipeVars
  /\ UNCHANGED histVars

\* get_or_create_table raises: the exception leaves process, the bundle fails.
CreateRaises(u) ==
  /\ pc[u] = "creating"
  /\ pc' = [pc EXCEPT ![u] = "aborted"]
  /\ cur' = [cur EXCEPT ![u] = <<>>]
  /\ UNCHANGED <<conf, pending, KNOWN_TABLES, rows_buffer, total_buffered_rows,
                 backoff, caller, queue, fl>>
  /\ UNCHANGED idVars
  /\ UNCHANGED pipeVars
  /\ UNCHANGED histVars

\* finish_bundle
FinishBundle(u) ==
  /\ pc[u] = "ready"
  /\ LET q == NonEmptyKeys(rows_buffer[u])
     IN /\ queue' = [queue EXCEPT ![u] = q]
        /\ pc' = [pc EXCEPT ![u] = IF q = <<>> THEN "idle" ELSE "flush"]
  /\ caller' = [caller EXCEPT ![u] = "finish_bundle"]
  /\ forced' = [forced EXCEPT ![u] = FALSE]
  /\ UNCHANGED <<conf, pending, KNOWN_TABLES, rows_buffer, total_buffered_rows,
                 backoff, cur, fl>>
  /\ UNCHANGED idVars
  /\ UNCHANGED pipeVars
  /\ UNCHANGED <<create_calls, accepted, FailedRows, bundle_calls>>

(***************************************************************************)
(* _flush_batch                                                            *)
(***************************************************************************)
\* rows = [r[0] for r in rows_and_insert_ids]
RowsOf(rows_and_insert_ids) ==
  [i \in 1..Len(rows_and_insert_ids) |-> rows_and_insert_ids[i][1]]

\* Mutant of InsertIdsOf: the ignore_insert_ids option is not looked at.
InsertIdsOfBuffered(rows_and_insert_ids) ==
  [i \in 1..Len(rows_and_insert_ids) |-> rows_and_insert_ids[i][2]]

\* insert_ids: None for every row with ignore_insert_ids, else r[1].
InsertIdsOf(rows_and_insert_ids) ==
  IF conf.ignore_insert_ids
  THEN [i \in 1..Len(rows_and_insert_ids) |-> None]
  ELSE [i \in 1..Len(rows_and_insert_ids) |-> rows_and_insert_ids[i][2]]

\* Mutant of FailedRowsOf: the rows sent are kept whole.
FailedRowsOfAll(rows, errors) == rows

\* Mutants of FailedRowsOf: only the first error entry is read; the rows with
\* a permanent error are left out.
FailedRowsOfFirstOnly(rows, errors) ==
  IF errors = <<>> THEN <<>> ELSE <<rows[errors[1].index + 1]>>

FailedRowsOfTransientOnly(rows, errors) ==
  LET transient == SelectSeq(errors, LAMBDA e : e.reason \notin NON_TRANSIENT_ERRORS)
  IN [i \in 1..Len(transient) |-> rows[transient[i].index + 1]]

\* failed_rows = [rows[entry.index] for entry in errors]
FailedRowsOf(rows, errors) ==
  [i \in 1..Len(errors) |-> rows[errors[i].index + 1]]

\* Every error entry of a non-empty answer has a permanent reason.
AllPermanentReasons(errors) ==
  /\ errors # <<>>
  /\ \A i \in 1..Len(errors) : errors[i].reason \in NON_TRANSIENT_ERRORS

\* Mutant of ShouldRetry: the loop goes on unless every reason is permanent.
ShouldRetryUnlessPermanent(errors) == ~AllPermanentReasons(errors)

\* Mutant of ShouldRetry: the loop always goes on.
ShouldRetryAlways(errors) == TRUE

\* Mutant of ShouldRetry: any error is retried, whatever the strategy.
ShouldRetryAnyError(errors) == errors # <<>>

\* should_retry = any(RetryStrategy.should_retry(strategy, reason) ...)
ShouldRetry(errors) ==
  \E i \in 1..Len(errors) : should_retry(conf.retry_strategy, errors[i].reason)

\* The ids passed with the next attempt: the loop assigns rows = failed_rows
\* and leaves insert_ids as it is.
NextInsertIds(insert_ids, errors) == insert_ids

\* Mutant of Output: every failed row is emitted twice.
OutputTwice(destination, failed_rows) ==
  [i \in 1..(2 * Len(failed_rows)) |-> <<destination, failed_rows[(i + 1) \div 2]>>]

\* Mutant of Output: the first failed row is not emitted.
OutputSkipsFirst(destination, failed_rows) ==
  IF failed_rows = <<>> THEN <<>>
  ELSE [i \in 1..(Len(failed_rows) - 1) |-> <<destination, failed_rows[i + 1]>>]

\* The TaggedOutput list _flush_batch returns.
Output(destination, failed_rows) ==
  [i \in 1..Len(failed_rows) |-> <<destination, failed_rows[i]>>]

\* Mutant of AfterFlush: the caller goes on after the first flush, the
\* others left for later.
AfterFlushLazy(u, q) ==
  IF caller[u] = "process" THEN "ready" ELSE "idle"

\* The unit's position once the flushes in q are done.
AfterFlush(u, q) ==
  IF q # <<>> THEN "flush"
  ELSE IF caller[u] = "process" THEN "ready" ELSE "idle"

\* The rows of a call the backend accepted: those no error entry names.
AcceptedRows(rows, errors) ==
  {rows[i] : i \in {k \in 1..Len(rows) :
                      \A n \in 1..Len(errors) : errors[n].index # k - 1}}

\* _flush_batch, up to the loop.
FlushBatch(u) ==
  /\ pc[u] = "flush"
  /\ queue[u] # <<>>
  /\ LET destination == Head(queue[u])
         rows_and_insert_ids == Get(rows_buffer[u], destination)
     IN fl' = [fl EXCEPT ![u] = [dest |-> destination,
                                 rows |-> RowsOf(rows_and_insert_ids),
                                 insert_ids |-> InsertIdsOf(rows_and_insert_ids),
                                 errors |-> <<>>,
                                 attempt |-> 0]]
  /\ pc' = [pc EXCEPT ![u] = "insert"]
  /\ UNCHANGED <<conf, pending, KNOWN_TABLES, rows_buffer, total_buffered_rows,
                 backoff, cur, caller, queue>>
  /\ UNCHANGED idVars
  /\ UNCHANGED pipeVars
  /\ UNCHANGED histVars

\* insert_rows(rows=rows, insert_ids=insert_ids) is called and answers errors.
InsertRows(u, errors) ==
  /\ pc[u] = "insert"
  /\ errors \in Responses(Len(fl[u].rows))
  /\ fl' = [fl EXCEPT ![u].errors = errors]
  /\ accepted' = accepted \cup AcceptedRows(fl[u].rows, errors)
  /\ pc' = [pc EXCEPT ![u] = "returned"]
  /\ UNCHANGED <<conf, pending, KNOWN_TABLES, rows_buffer, total_buffered_rows,
                 backoff, cur, caller, queue>>
  /\ UNCHANGED idVars
  /\ UNCHANGED pipeVars
  /\ bundle_calls' = [bundle_calls EXCEPT ![u] = Called(@, u, errors)]
  /\ UNCHANGED <<create_calls, FailedRows, forced>>

\* The rest of the loop's pass, and of _flush_batch when the loop breaks.
HandleErrors(u) ==
  /\ pc[u] = "returned"
  /\ LET destination == fl[u].dest
         errors == fl[u].errors
         failed_rows == FailedRowsOf(fl[u].rows, errors)
     IN IF ShouldRetry(errors)
        THEN /\ fl' = [fl EXCEPT ![u].rows = failed_rows,
                                 ![u].insert_ids = NextInsertIds(@, errors),
                                 ![u].attempt = @ + 1]
             /\ pc' = [pc EXCEPT ![u] = "backoff"]
             /\ UNCHANGED <<rows_buffer, total_buffered_rows, queue, FailedRows>>
        ELSE /\ total_buffered_rows' =
                  [total_buffered_rows EXCEPT ![u] =
                     @ - Len(Get(rows_buffer[u], destination))]
             /\ rows_buffer' = [rows_buffer EXCEPT ![u] = Del(@, destination)]
             /\ FailedRows' = FailedRows (+) SeqToBag(Output(destination, failed_rows))
             /\ queue' = [queue EXCEPT ![u] = Tail(@)]
             /\ pc' = [pc EXCEPT ![u] = AfterFlush(u, Tail(queue[u]))]
             /\ fl' = [fl EXCEPT ![u] = NoFlush]
  /\ UNCHANGED <<conf, pending, KNOWN_TABLES, backoff, cur, caller>>
  /\ UNCHANGED idVars
  /\ UNCHANGED pipeVars
  /\ UNCHANGED <<create_calls, accepted, forced, bundle_calls>>

\* retry_backoff = next(self._backoff_calculator); time.sleep(retry_backoff)
Backoff(u) ==
  /\ pc[u] = "backoff"
  /\ backoff[u] < NumRetries
  /\ backoff' = [backoff EXCEPT ![u] = @ + 1]
  /\ pc' = [pc EXCEPT ![u] = "insert"]
  /\ UNCHANGED <<conf, pending, KNOWN_TABLES, rows_buffer, total_buffered_rows,
                 cur, caller, queue, fl>>
  /\ UNCHANGED idVars
  /\ UNCHANGED pipeVars
  /\ UNCHANGED histVars

\* next() on the exhausted sequence raises StopIteration out of _flush_batch.
BackoffExhausted(u) ==
  /\ pc[u] = "backoff"
  /\ backoff[u] >= NumRetries
  /\ pc' = [pc EXCEPT ![u] = "aborted"]
  /\ UNCHANGED <<conf, pending, KNOWN_TABLES, rows_buffer, total_buffered_rows,
                 backoff, cur, caller, queue, fl>>
  /\ UNCHANGED idVars
  /\ UNCHANGED pipeVars
  /\ UNCHANGED histVars

\* The steps of writer unit u.
Step(u) ==
  \/ StartBundle(u)
  \/ \E S \in SUBSET pending : Process(u, S)
  \/ CreateReturns(u)
  \/ CreateRaises(u)
  \/ FinishBundle(u)
  \/ FlushBatch(u)
  \/ \E errors \in Responses(Len(fl[u].rows)) : InsertRows(u, errors)
  \/ HandleErrors(u)
  \/ Backoff(u)
  \/ BackoffExhausted(u)

\* The id-assigning unit's steps: one invocation, its prefix the first value
\* drawn.
InsertIdStep ==
  \/ InsertIdStartBundle("a")
  \/ \E d \in Dests : InsertIdProcess(d)

(***************************************************************************)
(* Spec: one writer unit at a time (unit u1 runs bundle after bundle),     *)
(* every combination of the options.                                       *)
(***************************************************************************)
Next == InsertIdStep \/ Step("u1")

Spec == Init /\ [][Next]_vars

(***************************************************************************)
(* SpecUnits: the writer units run concurrently and share _KNOWN_TABLES.   *)
(* Every record goes to the same destination, so that the units meet on    *)
(* one key of the cache.                                                   *)
(***************************************************************************)
InitUnits == Init /\ conf \in UnitsConfigs

NextUnits ==
  \/ InsertIdStartBundle("a")
  \/ InsertIdProcess("p:d.t1")
  \/ \E u \in Units : Step(u)

SpecUnits == InitUnits /\ [][NextUnits]_vars

(***************************************************************************)
(* SpecSharding: the pipeline without auto sharding, with its sharding     *)
(* steps between the id-assigning unit and one writer unit.                *)
(***************************************************************************)
ShardKeys == Dests \X randint(0, DEFAULT_SHARDS_PER_DESTINATION)

NextSharding ==
  \/ InsertIdStartBundle("a")
  \/ \E i \in randint(0, DEFAULT_SHARDS_PER_DESTINATION) : InsertIdProcessSharded(i)
  \/ InsertIdBundleDone
  \/ \E k \in ShardKeys : CommitInsertIds(k)
  \/ Step("u1")

SpecSharding == InitUnits /\ [][NextSharding]_vars

(***************************************************************************)
(* SpecIds: the id-assigning unit alone, its input processed in several    *)
(* invocations, any of which can fail and be executed again.               *)
(***************************************************************************)
NextIds ==
  \/ \E p \in Uuids : InsertIdStartBundle(p)
  \/ \E d \in Dests : InsertIdProcess(d)
  \/ InsertIdBundleDone
  \/ InsertIdBundleFails

SpecIds == InitUnits /\ [][NextIds]_vars

(***************************************************************************)
(* SpecExpand: the pipeline's construction with any arguments; records are *)
(* processed and written once expand has returned the streaming transform. *)
(* Every record goes to the same destination, so that batches fill up.     *)
(***************************************************************************)
InitExpand ==
  /\ options \in PipelineOptions
  /\ conf = ConfOf(options)
  /\ expanded = None
  /\ InitUnstarted

NextExpand ==
  \/ Expand
  \/ /\ expanded = StreamToBigQuery
     /\ \/ InsertIdStartBundle("a")
        \/ InsertIdProcess("p:d.t1")
        \/ Step("u1")

SpecExpand == InitExpand /\ [][NextExpand]_vars

(***************************************************************************)
(* Properties                                                              *)
(***************************************************************************)
\* Unit u takes the step that handles the answer of an insert_rows call.
Handles(u) == pc[u] = "returned" /\ pc'[u] # "returned"

\* The position of a unit whose _flush_batch has returned.
FlushReturned == {"flush", "ready", "idle"}

\* The rows an insert_rows call reported in error: sent and not accepted.
ErrorRows(u) == SeqRange(fl[u].rows) \ AcceptedRows(fl[u].rows, fl[u].errors)

\* FailedRows with the rows in S emitted once more for destination d.
WithFailed(d, S) == FailedRows (+) SetToBag({<<d, r>> : r \in S})

Emitted(r) == \E d \in Dests : BagIn(<<d, r>>, FailedRows)

AllPermanent(errors) ==
  /\ errors # <<>>
  /\ \A i \in 1..Len(errors) : errors[i].reason \in NON_TRANSIENT_ERRORS

Mixed(errors) ==
  /\ \E i \in 1..Len(errors) : errors[i].reason \in NON_TRANSIENT_ERRORS
  /\ \E i \in 1..Len(errors) : errors[i].reason \notin NON_TRANSIENT_ERRORS

RECURSIVE CallsBy(_, _)
CallsBy(U, d) ==
  IF U = {} THEN 0
  ELSE LET u == CHOOSE x \in U : TRUE IN create_calls[u][d] + CallsBy(U \ {u}, d)

\* C1: with dedup ids enabled, every row of every insert call, first attempt
\* or retry, is passed at its position the InsertId it was buffered with.
C1_SameInsertIdOnEveryAttempt ==
  \A u \in Units :
    (pc[u] = "insert" /\ ~conf.ignore_insert_ids) =>
      \A i \in 1..Len(fl[u].rows) :
        fl[u].insert_ids[i] = insert_id_of[fl[u].rows[i]]

\* C2: a row leaves a unit's buffer only when a flush of its destination
\* returns, and then the backend has accepted it in some insert call or the
\* flush emits it on FailedRows; the one other way out is start_bundle after
\* a bundle that ended with an exception.
C2_NoSilentLoss ==
  [][\A u \in Units :
       \A r \in BufferedRows(rows_buffer[u]) \ BufferedRows(rows_buffer'[u]) :
         \/ /\ Handles(u)
            /\ pc'[u] \in FlushReturned
            /\ \/ r \in accepted
               \/ CopiesIn(<<fl[u].dest, r>>, FailedRows')
                    = CopiesIn(<<fl[u].dest, r>>, FailedRows) + 1
         \/ pc[u] = "aborted"]_vars

C2_Witness ==
  /\ pc["u1"] = "ready"
  /\ rows_buffer["u1"] = <<>>
  /\ \E r1, r2 \in Rows : r1 # r2 /\ r1 \in accepted /\ Emitted(r2) /\ r2 \notin accepted

\* C3: under RETRY_NEVER a flush makes one insert call, takes no delay from
\* the backoff sequence, and ends when the call has answered, emitting every
\* row the call reported in error on FailedRows, each exactly once.
C3_NeverRetry ==
  /\ [](conf.retry_strategy = RETRY_NEVER =>
          \A u \in Units : pc[u] # "backoff" /\ backoff[u] = 0 /\ fl[u].attempt = 0)
  /\ [][conf.retry_strategy = RETRY_NEVER =>
          \A u \in Units :
            Handles(u) =>
              /\ pc'[u] \in FlushReturned
              /\ FailedRows' = WithFailed(fl[u].dest, ErrorRows(u))
              /\ \A x \in BagToSet(FailedRows') : CopiesIn(x, FailedRows') = 1]_vars

C3_Witness ==
  /\ conf.retry_strategy = RETRY_NEVER
  /\ pc["u1"] = "ready"
  /\ accepted # {}
  /\ FailedRows # EmptyBag

\* C4: under RETRY_ALWAYS no flush raises and no row is emitted on FailedRows.
C4_AlwaysRetryNeverStops ==
  conf.retry_strategy = RETRY_ALWAYS =>
    /\ \A u \in Units : ~(pc[u] = "aborted" /\ fl[u].dest # None)
    /\ FailedRows = EmptyBag

\* C5: without batched input a unit never holds more than max_buffered_rows
\* rows, and when a process call that brought the number to max_buffered_rows
\* without filling its own batch has returned, every destination is flushed.
C5_BufferCeiling ==
  ~conf.with_batched_input =>
    \A u \in Units :
      /\ BufferedCount(rows_buffer[u]) <= conf.max_buffered_rows
      /\ (pc[u] = "ready" /\ forced[u]) => rows_buffer[u] = <<>>

C5_Witness ==
  /\ ~conf.with_batched_input
  /\ pc["u1"] = "ready"
  /\ forced["u1"]
  /\ Cardinality(accepted) >= 2

Created(d) == \E u \in Units : create_calls[u][d] > 0

\* C7: under CREATE_IF_NEEDED every destination with buffered rows, and the
\* destination of every insert call, has had a get_or_create_table call
\* return before.
C7_CreatedBeforeInsert ==
  conf.create_disposition = CREATE_IF_NEEDED =>
    \A u \in Units :
      /\ \A i \in 1..Len(rows_buffer[u]) : Created(rows_buffer[u][i].dest)
      /\ pc[u] \in {"insert", "returned", "backoff"} => Created(fl[u].dest)

C7_Witness ==
  /\ conf.create_disposition = CREATE_IF_NEEDED
  /\ pc["u1"] = "insert"
  /\ Len(fl["u1"].rows) = 2
  /\ create_calls["u1"][fl["u1"].dest] = 1

\* C8: under CREATE_NEVER no get_or_create_table call is ever under way or
\* has returned.
C8_NeverCreate ==
  conf.create_disposition = CREATE_NEVER =>
    \A u \in Units :
      /\ pc[u] # "creating"
      /\ \A d \in Dests : create_calls[u][d] = 0

C8_Witness ==
  /\ conf.create_disposition = CREATE_NEVER
  /\ pc["u1"] = "idle"
  /\ accepted # {}

\* C9: under RETRY_ON_TRANSIENT_ERROR, when every reason an insert call
\* returned is permanent the flush ends there and emits on FailedRows all
\* the rows that call reported in error.
C9_PermanentOnlyStops ==
  [][conf.retry_strategy = RETRY_ON_TRANSIENT_ERROR =>
       \A u \in Units :
         (Handles(u) /\ AllPermanent(fl[u].errors)) =>
           /\ pc'[u] \in FlushReturned
           /\ FailedRows' = WithFailed(fl[u].dest, ErrorRows(u))]_vars

C9_Witness ==
  /\ conf.retry_strategy = RETRY_ON_TRANSIENT_ERROR
  /\ pc["u1"] = "ready"
  /\ backoff["u1"] = 0
  /\ FailedRows # EmptyBag

C11_OnlyTransientRetried ==
  conf.retry_strategy = RETRY_ON_TRANSIENT_ERROR =>
    \A u \in Units :
      (pc[u] \in {"backoff", "insert"} /\ fl[u].attempt >= 1) =>
        \A i \in 1..Len(fl[u].rows) :
          fl[u].errors[i].reason \notin NON_TRANSIENT_ERRORS

\* C12: with ignore_insert_ids every insert call, first attempt or retry,
\* passes None as the id of every row, whatever ids were assigned upstream.
C12_NoDedupIds ==
  conf.ignore_insert_ids =>
    \A u \in Units :
      pc[u] \in {"insert", "returned", "backoff"} =>
        /\ Len(fl[u].insert_ids) >= Len(fl[u].rows)
        /\ \A i \in 1..Len(fl[u].insert_ids) : fl[u].insert_ids[i] = None

C12_Witness ==
  /\ conf.ignore_insert_ids
  /\ pc["u1"] = "insert"
  /\ fl["u1"].attempt = 1
  /\ Len(fl["u1"].rows) = 2
  /\ \A i \in 1..2 : insert_id_of[fl["u1"].rows[i]] # None

\* The insert calls C13 expects of a bundle that has processed n records with
\* batch size B: n \div B calls of B rows from process, then one call of
\* n % B rows from finish_bundle when n % B > 0.
ProcessCalls(n, B) == [i \in 1..(n \div B) |-> <<"process", B>>]

ExpectedCalls(n, B) ==
  ProcessCalls(n, B)
    \o (IF n % B > 0 THEN << <<"finish_bundle", n % B>> >> ELSE <<>>)

\* C13: without batched input and with max_batch_size <= max_buffered_rows,
\* a bundle whose n records go to one destination and whose insert calls all
\* succeed has made n \div B calls of B rows whenever process has returned,
\* and ceil(n / B) calls, the last of n % B rows, when finish_bundle has.
C13_CeilCalls ==
  (~conf.with_batched_input /\ conf.max_batch_size <= conf.max_buffered_rows) =>
    \A u \in Units :
      bundle_calls[u] # Untracked =>
        LET h == bundle_calls[u]
            B == conf.max_batch_size
        IN /\ pc[u] = "ready" => h.calls = ProcessCalls(h.n, B)
           /\ (pc[u] = "idle" /\ caller[u] = "finish_bundle") =>
                h.calls = ExpectedCalls(h.n, B)

\* C14: when finish_bundle has completed, the unit's buffers are empty and
\* its buffered-row counter is 0.
C14_FinishBundleEmpties ==
  \A u \in Units :
    (pc[u] = "idle" /\ caller[u] = "finish_bundle") =>
      /\ rows_buffer[u] = <<>>
      /\ total_buffered_rows[u] = 0

\* C15: whatever the strategy and the row errors answered, no bundle ends
\* with an exception raised inside a flush.
C15_RowErrorsNeverAbort ==
  \A u \in Units : pc[u] = "aborted" => fl[u].attempt = 0

\* The element the writer is handed for row r when the sharding steps are
\* removed: the output of AddInsertIds, keyed by the row's destination.
Tagged(r) == [dest |-> table_of(r), value |-> <<r, insert_id_of[r]>>]

C17_ShardIndexBelowS ==
  /\ \A x \in shuffling :
       0 <= x.key[2] /\ x.key[2] < DEFAULT_SHARDS_PER_DESTINATION
  /\ \A d \in Dests :
       Cardinality({x.key : x \in {y \in shuffling : y.key[1] = d}})
         <= DEFAULT_SHARDS_PER_DESTINATION

\* C18: in the running invocation the k-th record processed, k from 0, has
\* the id prefix-k with the prefix drawn at the invocation's start, and no
\* two records, of one invocation or of two, have the same id.
C18_PrefixAndSequence ==
  /\ id_pc = "running" =>
       \A k \in 0..(row_count - 1) :
         insert_id_of[produced - row_count + 1 + k] = prefix \o "-" \o ToString(k)
  /\ \A r1, r2 \in DOMAIN insert_id_of :
       r1 # r2 => insert_id_of[r1] # insert_id_of[r2]

C18_Witness ==
  /\ id_pc = "running"
  /\ prefix = "b"
  /\ row_count = 2
  /\ DOMAIN insert_id_of = 1..3
  /\ earlier_ids = {}

\* C19: the ids given in an execution that was run again are given to no
\* record afterwards: a record processed again has an id different from its
\* earlier ones, and from the earlier ones of every other record.
C19_NewIdsOnReexecution ==
  \A x \in earlier_ids :
    \A r \in DOMAIN insert_id_of : insert_id_of[r] # x[2]

C19_Witness ==
  /\ id_pc = "idle"
  /\ produced = MaxRecords
  /\ \E x \in earlier_ids : x[1] = 1 /\ x[2] = "a-0"
  /\ insert_id_of[1] = "b-0"

\* C20: with with_auto_sharding on a pipeline that is not streaming, expand
\* raises the auto-sharding error whatever the method and the other
\* arguments, and no record is ever processed.
C20_AutoShardingNeedsStreaming ==
  (~options.streaming /\ options.with_auto_sharding) =>
    /\ expanded \in {None, ErrAutoSharding}
    /\ id_pc = "idle"
    /\ produced = 0
    /\ pending = {}

C20_Witness ==
  /\ ~options.streaming
  /\ options.with_auto_sharding
  /\ options.method = FILE_LOADS
  /\ expanded = ErrAutoSharding

\* The writer units as they are before any bundle: no buffer, a zero
\* counter, an empty cache, nothing processed.
NothingWritten ==
  /\ KNOWN_TABLES = {}
  /\ \A u \in Units :
       /\ pc[u] = "idle"
       /\ rows_buffer[u] = <<>>
       /\ total_buffered_rows[u] = 0
  /\ accepted = {}
  /\ FailedRows = EmptyBag

\* expand reaches the construction of the streaming writer: the streaming
\* method is selected and none of expand's own checks raises.
ReachesWriter(o) ==
  /\ ~(~o.streaming /\ o.with_auto_sharding)
  /\ compute_method(o.method, o.streaming) = STREAMING_INSERTS
  /\ o.schema # SCHEMA_AUTODETECT
  /\ o.triggering_frequency = None

\* C21: the streaming transform is built only with WRITE_APPEND; when expand
\* reaches the writer's construction with WRITE_TRUNCATE or WRITE_EMPTY it
\* raises the write-disposition error, no record is ever processed and the
\* buffers, counters and the table cache stay as they were.
C21_OnlyAppendStreams ==
  /\ expanded = StreamToBigQuery => options.write_disposition = WRITE_APPEND
  /\ (ReachesWriter(options) /\ options.write_disposition # WRITE_APPEND) =>
       /\ expanded \in {None, ErrWriteDisposition}
       /\ id_pc = "idle"
       /\ produced = 0
       /\ pending = {}
       /\ NothingWritten

C21_Witness ==
  /\ ReachesWriter(options)
  /\ options.write_disposition = WRITE_EMPTY
  /\ expanded = ErrWriteDisposition
  /\ NothingWritten

\* C22: with SCHEMA_AUTODETECT and the streaming-insert method, asked for by
\* name or chosen by default on a streaming pipeline, expand raises: the
\* auto-detection error unless the auto-sharding check has raised first,
\* never the writer's own error, and no record is ever processed.
C22_NoAutodetectStreaming ==
  (/\ options.schema = SCHEMA_AUTODETECT
   /\ \/ options.method = STREAMING_INSERTS
      \/ options.method = DEFAULT /\ options.streaming) =>
    /\ expanded \in {None, ErrAutodetectStreaming, ErrAutoSharding}
    /\ expanded = ErrAutoSharding => (~options.streaming /\ options.with_auto_sharding)
    /\ id_pc = "idle"
    /\ produced = 0
    /\ pending = {}
    /\ NothingWritten

C22_Witness ==
  /\ options.schema = SCHEMA_AUTODETECT
  /\ options.method = DEFAULT
  /\ options.streaming
  /\ options.write_disposition = WRITE_TRUNCATE
  /\ expanded = ErrAutodetectStreaming

\* The attributes of the BigQueryWriteFn instance of unit u and its position.
UnitState(u) ==
  <<pc[u], rows_buffer[u], total_buffered_rows[u], backoff[u], cur[u], caller[u],
    queue[u], fl[u]>>

\* The cache a sequential execution leaves: the keys of the destinations
\* whose get_or_create_table call has returned.
CreatedKeys == {str_table_reference(d) : d \in {x \in Dests : Created(x)}}

\* C23: however the units' checks, get_or_create_table calls and cache
\* insertions interleave, the cache holds exactly the keys whose creation has
\* returned, as after a sequential execution, it never loses a key, and a
\* step of one unit leaves the buffer and the counter of every other unit
\* as they are.
C23_CacheRaceHarmless ==
  /\ [](KNOWN_TABLES = CreatedKeys)
  /\ [][/\ KNOWN_TABLES \subseteq KNOWN_TABLES'
        /\ \A u, v \in Units :
             (u # v /\ UnitState(u)' # UnitState(u)) =>
               /\ rows_buffer'[v] = rows_buffer[v]
               /\ total_buffered_rows'[v] = total_buffered_rows[v]]_vars

C23_Witness ==
  /\ KNOWN_TABLES = {"p:d.t1"}
  /\ create_calls["u1"]["p:d.t1"] = 1
  /\ create_calls["u2"]["p:d.t1"] = 1
  /\ rows_buffer["u1"] # <<>>
  /\ rows_buffer["u2"] # <<>>

\* The positions of a unit inside the loop of _flush_batch.
InLoop == {"insert", "returned", "backoff"}

\* C24: a unit has at most one flush under way: inside the loop it is the
\* flush of the first destination still to flush, outside it there is none,
\* and process and finish_bundle return only when no flush is left; the
\* loop starts only where no flush is under way, and while the unit is in
\* the loop its buffer takes no record and changes only when the flush ends,
\* by losing the flushed destination.
C24_OneFlushAtATime ==
  /\ [](\A u \in Units :
          /\ pc[u] \in InLoop =>
               /\ queue[u] # <<>>
               /\ fl[u].dest = Head(queue[u])
          /\ pc[u] \in {"idle", "ready", "creating", "flush"} => fl[u] = NoFlush
          /\ pc[u] \in {"idle", "ready", "creating"} => queue[u] = <<>>)
  /\ [][\A u \in Units :
          /\ (pc[u] \notin InLoop /\ pc'[u] \in InLoop) =>
               /\ pc[u] = "flush"
               /\ fl[u] = NoFlush
               /\ fl'[u].attempt = 0
          /\ (pc[u] \in InLoop /\ pc'[u] \in InLoop) =>
               /\ rows_buffer'[u] = rows_buffer[u]
               /\ total_buffered_rows'[u] = total_buffered_rows[u]
               /\ fl'[u].dest = fl[u].dest
               /\ queue'[u] = queue[u]
          /\ (pc[u] \in InLoop /\ pc'[u] \in FlushReturned) =>
               /\ rows_buffer'[u] = Del(rows_buffer[u], fl[u].dest)
               /\ queue'[u] = Tail(queue[u])]_vars

C24_Witness ==
  /\ pc["u1"] = "backoff"
  /\ Len(queue["u1"]) = 2
  /\ fl["u1"].dest = Head(queue["u1"])
  /\ Len(rows_buffer["u1"]) = 2
  /\ caller["u1"] = "process"

\* Unit u takes the step of process that appends a record to the list of
\* destination d.
Buffers(u, d) ==
  /\ ~conf.with_batched_input
  /\ pc[u] \in {"ready", "creating"}
  /\ Len(Get(rows_buffer'[u], d)) = Len(Get(rows_buffer[u], d)) + 1

\* C25: without batched input, a process call whose record brings its own
\* list to max_batch_size flushes that destination alone, whatever the
\* counter; it flushes all the non-empty destinations only with its own list
\* below max_batch_size and the counter at max_buffered_rows or above; and
\* the flushes of a process call leave the list of every destination they
\* are not for as it was.
C25_OwnBatchFlushedAlone ==
  [][\A u \in Units :
       /\ \A d \in Dests :
            Buffers(u, d) =>
              /\ Len(Get(rows_buffer'[u], d)) >= conf.max_batch_size =>
                   queue'[u] = <<d>>
              /\ queue'[u] \notin {<<>>, <<d>>} =>
                   /\ Len(Get(rows_buffer'[u], d)) < conf.max_batch_size
                   /\ total_buffered_rows'[u] >= conf.max_buffered_rows
              /\ (/\ Len(Get(rows_buffer'[u], d)) < conf.max_batch_size
                  /\ total_buffered_rows'[u] >= conf.max_buffered_rows) =>
                   queue'[u] = NonEmptyKeys(rows_buffer'[u])
       /\ (caller[u] = "process" /\ pc[u] \in {"flush"} \cup InLoop) =>
            /\ queue'[u] \in {queue[u], Tail(queue[u])}
            /\ \A d \in Dests \ SeqRange(queue[u]) :
                 Get(rows_buffer'[u], d) = Get(rows_buffer[u], d)]_vars

C25_Witness ==
  /\ ~conf.with_batched_input
  /\ caller["u1"] = "process"
  /\ pc["u1"] = "returned"
  /\ total_buffered_rows["u1"] >= conf.max_buffered_rows
  /\ Len(queue["u1"]) = 1
  /\ Len(fl["u1"].rows) >= conf.max_batch_size
  /\ \E d \in Dests \ {fl["u1"].dest} : Get(rows_buffer["u1"], d) # <<>>

\* C26: without batched input, a unit that awaits its next call holds fewer
\* than max_batch_size rows for each destination, no list ever holds more
\* than max_batch_size rows, and every insert call, first attempt or
\* retry, carries at most max_batch_size rows.
C26_BatchBounded ==
  ~conf.with_batched_input =>
    \A u \in Units :
      /\ \A i \in 1..Len(rows_buffer[u]) :
           /\ Len(rows_buffer[u][i].rows) <= conf.max_batch_size
           /\ pc[u] \in {"idle", "ready"} =>
                Len(rows_buffer[u][i].rows) < conf.max_batch_size
      /\ pc[u] \in InLoop => Len(fl[u].rows) <= conf.max_batch_size

C26_Witness ==
  /\ ~conf.with_batched_input
  /\ conf.max_batch_size = 2
  /\ pc["u1"] = "insert"
  /\ fl["u1"].attempt = 1
  /\ Len(fl["u1"].rows) = 2
  /\ rows_buffer["u1"] = <<[dest |-> fl["u1"].dest,
                            rows |-> Get(rows_buffer["u1"], fl["u1"].dest)]>>

\* Unit u takes the step of process that buffers the element e: the element
\* just delivered, or the one kept while the table was created.
Takes(u, e) ==
  \/ /\ pc[u] = "ready"
     /\ pc'[u] # "creating"
     /\ pending' # pending
     /\ pending' \subseteq pending
     /\ e = ElementOf(pending \ pending')
  \/ /\ pc[u] = "creating"
     /\ pc'[u] # "aborted"
     /\ e = cur[u]

\* The elements the writer can be handed.
Elements == {ElementOf(S) : S \in (SUBSET pending) \ {{}}} \cup {cur[u] : u \in Units}

\* C27: with batched input every process call buffers its batch into an
\* empty buffer and flushes that destination at once, whatever the batch's
\* size and the counter; the first insert call of the flush carries the rows
\* of the batch, in order; a unit that awaits its next call has an empty
\* buffer, and finish_bundle flushes nothing.
C27_BatchedFlushesAtOnce ==
  /\ [](conf.with_batched_input =>
          \A u \in Units :
            /\ pc[u] \in {"idle", "ready", "creating"} => rows_buffer[u] = <<>>
            /\ pc[u] \in {"flush"} \cup InLoop =>
                 /\ caller[u] = "process"
                 /\ Keys(rows_buffer[u]) = queue[u]
                 /\ Len(queue[u]) = 1)
  /\ [][conf.with_batched_input =>
          \A u \in Units :
            /\ \A e \in Elements :
                 Takes(u, e) =>
                   /\ rows_buffer'[u] = <<[dest |-> e.dest, rows |-> e.items]>>
                   /\ queue'[u] = <<e.dest>>
                   /\ pc'[u] = "flush"
            /\ (pc[u] = "flush" /\ pc'[u] = "insert") =>
                 /\ fl'[u].attempt = 0
                 /\ fl'[u].dest = rows_buffer[u][1].dest
                 /\ fl'[u].rows = RowsOf(rows_buffer[u][1].rows)]_vars

C27_Witness ==
  /\ conf.with_batched_input
  /\ conf.max_batch_size = 2
  /\ pc["u1"] = "returned"
  /\ fl["u1"].attempt = 0
  /\ Len(fl["u1"].rows) = 1
  /\ Len(rows_buffer["u1"]) = 1
  /\ RowsOf(rows_buffer["u1"][1].rows) = fl["u1"].rows
  /\ total_buffered_rows["u1"] < conf.max_buffered_rows

\* C28: with batch_size not configured, under either sharding policy no list
\* of the writer and no insert call holds more than DEFAULT_MAX_BATCH_SIZE
\* rows.
C28_DefaultBatchSize ==
  (expanded = StreamToBigQuery /\ options.batch_size = 0) =>
    \A u \in Units :
      /\ \A i \in 1..Len(rows_buffer[u]) :
           Len(rows_buffer[u][i].rows) <= DEFAULT_MAX_BATCH_SIZE
      /\ pc[u] \in InLoop => Len(fl[u].rows) <= DEFAULT_MAX_BATCH_SIZE

\* C29: every flush takes its delays from the start of the backoff sequence:
\* a unit about to sleep before the k-th retry of a flush has taken exactly
\* k - 1 delays from the sequence, whatever the earlier flushes of the
\* bundle did.
C29_BackoffFreshPerFlush ==
  \A u \in Units : pc[u] = "backoff" => backoff[u] = fl[u].attempt - 1

\* C30: in a flush the rows of the next attempt are the rows of this attempt
\* that its error entries index, in the entries' order, so they are among
\* the rows just sent and none of them was accepted; the sleep leaves them
\* as they are; and no row about to be sent has been accepted before.
C30_RowsOnlyShrink ==
  /\ [](\A u \in Units :
          pc[u] \in {"insert", "backoff"} => SeqRange(fl[u].rows) \cap accepted = {})
  /\ [][\A u \in Units :
          /\ (Handles(u) /\ pc'[u] = "backoff") =>
               /\ fl'[u].rows =
                    [i \in 1..Len(fl[u].errors) |-> fl[u].rows[fl[u].errors[i].index + 1]]
               /\ SeqRange(fl'[u].rows) \subseteq SeqRange(fl[u].rows)
               /\ SeqRange(fl'[u].rows) \cap AcceptedRows(fl[u].rows, fl[u].errors) = {}
               /\ fl'[u].dest = fl[u].dest
          /\ (pc[u] = "backoff" /\ pc'[u] = "insert") => fl'[u].rows = fl[u].rows]_vars

C30_Witness ==
  /\ pc["u1"] = "insert"
  /\ fl["u1"].attempt = 1
  /\ Len(Get(rows_buffer["u1"], fl["u1"].dest)) = 2
  /\ fl["u1"].rows = <<Get(rows_buffer["u1"], fl["u1"].dest)[2][1]>>
  /\ Get(rows_buffer["u1"], fl["u1"].dest)[1][1] \in accepted

\* C31: under any strategy, the step that ends a flush adds to FailedRows
\* one element for each row the last insert call reported in error, paired
\* with the flush's destination, and nothing else, so nothing when that call
\* reported no error; no element is emitted twice and no emitted row is one
\* the backend has accepted.
C31_EmitsLastErrors ==
  /\ [](/\ \A r \in Rows : Emitted(r) => r \notin accepted
        /\ \A x \in BagToSet(FailedRows) : CopiesIn(x, FailedRows) = 1)
  /\ [][\A u \in Units :
          (Handles(u) /\ pc'[u] \in FlushReturned) =>
            /\ FailedRows' = WithFailed(fl[u].dest, ErrorRows(u))
            /\ BagCardinality(FailedRows') = BagCardinality(FailedRows) + Len(fl[u].errors)
            /\ ErrorRows(u) \cap AcceptedRows(fl[u].rows, fl[u].errors) = {}]_vars

C31_Witness ==
  /\ pc["u1"] = "ready"
  /\ backoff["u1"] = 1
  /\ BagCardinality(FailedRows) = 1
  /\ \E r1, r2 \in Rows :
       /\ accepted = {r1}
       /\ Emitted(r2)
       /\ r1 # r2

(***************************************************************************)
(* SpecReexec: one writer unit whose bundle is the whole committed input;  *)
(* when the bundle fails the host runs it again on the same elements, the  *)
(* outputs of the steps before the commit being kept.                      *)
(***************************************************************************)
\* The elements the commit step holds for the writer.
Committed == {Tagged(r) : r \in 1..produced}

\* The host runs the failed bundle of unit u again: its elements are
\* delivered once more, as they were committed.
WriterReexecuted(u) ==
  /\ pc[u] = "aborted"
  /\ redeliveries < MaxRedeliveries
  /\ pending # Committed
  /\ pending' = Committed
  /\ redeliveries' = redeliveries + 1
  /\ UNCHANGED <<options, expanded, conf, KNOWN_TABLES>>
  /\ UNCHANGED idVars
  /\ UNCHANGED unitVars
  /\ UNCHANGED histVars

NextReexec ==
  \/ InsertIdStartBundle("a")
  \/ InsertIdProcess(table_of(produced + 1))
  \/ StartBundle("u1")
  \/ \E S \in SUBSET pending : Process("u1", S)
  \/ CreateReturns("u1")
  \/ CreateRaises("u1")
  \/ pending = {} /\ FinishBundle("u1")
  \/ FlushBatch("u1")
  \/ \E errors \in Responses(Len(fl["u1"].rows)) : InsertRows("u1", errors)
  \/ HandleErrors("u1")
  \/ Backoff("u1")
  \/ BackoffExhausted("u1")
  \/ WriterReexecuted("u1")

SpecReexec == InitUnits /\ [][NextReexec]_vars

\* C32: when the writer's bundle is run again, the elements it is handed are
\* the committed ones, each row with the InsertId the id-assigning step gave
\* it, and every insert call of the re-execution passes each row that id.
C32_SameIdOnReexecution ==
  /\ produced = MaxRecords => pending \subseteq Committed
  /\ redeliveries > 0 =>
       \A u \in Units :
         pc[u] = "insert" =>
           \A i \in 1..Len(fl[u].rows) :
             fl[u].insert_ids[i] = insert_id_of[fl[u].rows[i]]

(***************************************************************************)
(* SpecDests: one writer unit, every combination of the options, each row  *)
(* bound for the destination table_of gives it.                            *)
(***************************************************************************)
NextDests ==
  \/ InsertIdStartBundle("a")
  \/ InsertIdProcess(table_of(produced + 1))
  \/ Step("u1")

SpecDests == Init /\ [][NextDests]_vars

\* C33: every row a unit holds for a destination, every row of an insert
\* call for a destination, and every row emitted on FailedRows with a
\* destination is a row whose element named that destination.
C33_RowsStayWithDestination ==
  /\ \A u \in Units :
       /\ \A i \in 1..Len(rows_buffer[u]) :
            \A j \in 1..Len(rows_buffer[u][i].rows) :
              table_of(rows_buffer[u][i].rows[j][1]) = rows_buffer[u][i].dest
       /\ pc[u] \in InLoop =>
            \A i \in 1..Len(fl[u].rows) : table_of(fl[u].rows[i]) = fl[u].dest
  /\ \A x \in BagToSet(FailedRows) : x[1] = table_of(x[2])

C33_Witness ==
  /\ conf.with_batched_input
  /\ pc["u1"] = "insert"
  /\ fl["u1"].attempt = 1
  /\ Len(queue["u1"]) = 1
  /\ Len(rows_buffer["u1"]) = 1
  /\ \E x \in BagToSet(FailedRows) : x[1] # fl["u1"].dest

\* C34: with or without batched input, whenever a unit awaits its next call
\* its counter is the number of rows in its buffer, and it is not negative.
C34_CounterIsBufferedCount ==
  \A u \in Units :
    pc[u] \in {"idle", "ready"} =>
      /\ total_buffered_rows[u] = BufferedCount(rows_buffer[u])
      /\ total_buffered_rows[u] >= 0

\* C35: when start_bundle has returned, after a bundle that ended normally
\* or with an exception, the unit's buffer is empty and its counter is 0.
C35_StartBundleResets ==
  \A u \in Units :
    (pc[u] = "ready" /\ caller[u] = None) =>
      /\ rows_buffer[u] = <<>>
      /\ total_buffered_rows[u] = 0

\* C36: every insert call, first attempt or retry, is passed as many ids as
\* rows, and the id at each position is the one of the row at that position:
\* the InsertId the row was buffered with, or None with ignore_insert_ids.
C36_IdsAlignedWithRows ==
  \A u \in Units :
    pc[u] = "insert" =>
      /\ Len(fl[u].insert_ids) = Len(fl[u].rows)
      /\ \A i \in 1..Len(fl[u].rows) :
           fl[u].insert_ids[i] =
             IF conf.ignore_insert_ids THEN None ELSE insert_id_of[fl[u].rows[i]]

\* C37: the cache holds only keys whose get_or_create_table call has
\* returned and nothing under CREATE_NEVER; no step removes a key; a key is
\* added only by the step in which a unit's get_or_create_table call for it
\* returns, and the step in which the call raises leaves the cache as it is.
C37_CacheMonotone ==
  /\ [](/\ KNOWN_TABLES \subseteq CreatedKeys
        /\ conf.create_disposition = CREATE_NEVER => KNOWN_TABLES = {})
  /\ [][/\ KNOWN_TABLES \subseteq KNOWN_TABLES'
        /\ KNOWN_TABLES' # KNOWN_TABLES =>
             \E u \in Units :
               /\ pc[u] = "creating"
               /\ pc'[u] # "aborted"
               /\ KNOWN_TABLES' = KNOWN_TABLES \cup {str_table_reference(cur[u].dest)}
        /\ \A u \in Units :
             (pc[u] = "creating" /\ pc'[u] = "aborted") => KNOWN_TABLES' = KNOWN_TABLES]_vars

C37_Witness ==
  /\ pc["u1"] = "aborted"
  /\ fl["u1"] = NoFlush
  /\ KNOWN_TABLES = {"p:d.t1"}
  /\ create_calls["u1"]["p:d.t2"] = 0
  /\ rows_buffer["u1"] # <<>>

(***************************************************************************)
(* SpecLive: SpecDests with the unit's thread running on: once insert_rows *)
(* has returned, the rest of the loop's pass is executed.                  *)
(***************************************************************************)
SpecLive == Init /\ [][NextDests]_vars /\ WF_vars(HandleErrors("u1"))

\* C38: under any strategy, the step that handles an answer without errors
\* ends the flush and emits nothing; under RETRY_ON_TRANSIENT_ERROR, once an
\* insert call has answered with permanent reasons only, or with no error,
\* the flush returns.
C38_FlushTerminates ==
  /\ [][\A u \in Units :
          (Handles(u) /\ fl[u].errors = <<>>) =>
            /\ pc'[u] \in FlushReturned
            /\ fl'[u] = NoFlush
            /\ FailedRows' = FailedRows]_vars
  /\ conf.retry_strategy = RETRY_ON_TRANSIENT_ERROR =>
       ((pc["u1"] = "returned"
           /\ (AllPermanent(fl["u1"].errors) \/ fl["u1"].errors = <<>>))
          ~> (pc["u1"] \in FlushReturned /\ fl["u1"] = NoFlush))

C38_Witness ==
  /\ conf.retry_strategy = RETRY_ON_TRANSIENT_ERROR
  /\ pc["u1"] = "returned"
  /\ fl["u1"].attempt = 2
  /\ AllPermanent(fl["u1"].errors)
  /\ Len(fl["u1"].errors) < Len(fl["u1"].rows)

\* C39: without batched input, every destination queued for a flush has at
\* least one buffered row, and every insert call and every sleep before a
\* retry has at least one row to send.
C39_NoEmptyInsert ==
  ~conf.with_batched_input =>
    \A u \in Units :
      /\ pc[u] \in {"flush"} \cup InLoop =>
           \A i \in 1..Len(queue[u]) : Get(rows_buffer[u], queue[u][i]) # <<>>
      /\ pc[u] \in {"insert", "backoff"} => fl[u].rows # <<>>
      /\ pc[u] = "backoff" => fl[u].errors # <<>>

C39_Witness ==
  /\ ~conf.with_batched_input
  /\ caller["u1"] = "finish_bundle"
  /\ pc["u1"] = "insert"
  /\ fl["u1"].attempt = 2
  /\ Len(fl["u1"].rows) = 1
  /\ Len(queue["u1"]) = 2

====
